---- MODULE Spec2Model ----
(***************************************************************************)
(* Replay memory and TD learning rules of src/src/agent.py: the Agent base *)
(* class (ring buffer of transitions) and its four subclasses DQNAgent,    *)
(* DDQNAgent, DQVAgent and DQVMaxAgent.                                    *)
(*                                                                         *)
(* Numbers are exact rationals <<numerator, denominator>>; the networks of *)
(* the module `network` (not part of the sources) are tables of estimates, *)
(* one parameter per (state, action) or per state.                         *)
(***************************************************************************)
EXTENDS Integers, Sequences, FiniteSets, TLC

VARIABLES
    hp,                  \* constructor arguments and kwargs (agent.py 29-36, 104-111)
    env,                 \* what the interaction loop feeds the agent
    state_buffer,        \* agent.py 30
    next_state_buffer,   \* agent.py 31
    action_buffer,       \* agent.py 32
    reward_buffer,       \* agent.py 33
    terminal_buffer,     \* agent.py 34
    mem_counter,         \* agent.py 35
    epsilon,             \* agent.py 106
    learn_step_counter,  \* agent.py 113
    q_network,           \* agent.py 116
    q_target_network,    \* agent.py 117 (target_q_network in DQVMaxAgent, 438)
    v_network,           \* agent.py 343
    target_v_network,    \* agent.py 344
    hist,                \* every transition store_transition stored, in order
    last                 \* the last public call: its outcome and its locals

buffers == <<state_buffer, next_state_buffer, action_buffer, reward_buffer,
             terminal_buffer>>
networks == <<q_network, q_target_network, v_network, target_v_network>>
vars == <<hp, env, buffers, mem_counter, epsilon, learn_step_counter, networks,
          hist, last>>

----------------------------------------------------------------------------
(* Exact rational arithmetic. *)

RECURSIVE GCD(_, _)
GCD(a, b) == IF b = 0 THEN a ELSE GCD(b, a % b)

Abs(x) == IF x < 0 THEN -x ELSE x

Rat(n, d) ==
    LET s == IF d < 0 THEN -1 ELSE 1
        g == GCD(Abs(n), Abs(d))
    IN  <<(s * n) \div g, (s * d) \div g>>

R(k) == <<k, 1>>
RAdd(x, y) == Rat(x[1] * y[2] + y[1] * x[2], x[2] * y[2])
RSub(x, y) == Rat(x[1] * y[2] - y[1] * x[2], x[2] * y[2])
RMul(x, y) == Rat(x[1] * y[1], x[2] * y[2])
RLess(x, y) == x[1] * y[2] < y[1] * x[2]
RLeq(x, y) == x[1] * y[2] <= y[1] * x[2]
RMax(x, y) == IF RLess(x, y) THEN y ELSE x

Min(a, b) == IF a < b THEN a ELSE b

Variants == {"DQN", "DDQN", "DQV", "DQVMax"}

----------------------------------------------------------------------------
(* The environment: observations, actions and rewards. *)

States == 0 .. (env.n_states - 1)
Actions == 0 .. (hp.n_actions - 1)
Slots == 0 .. (hp.memory_size - 1)

(* a write index that is one slot ahead *)
WriteIndexAhead(counter, size) == (counter + 1) % size

WriteIndex(counter, size) == counter % size

Transition(s, a, r, s2, d) ==
    [state |-> s, action |-> a, reward |-> r, new_state |-> s2, done |-> d]

NoCall == [call |-> "init", outcome |-> "ok", ret |-> -1, batch_indices |-> <<>>,
           v_target |-> <<>>, q_target |-> <<>>]

(* an observation whose shape numpy cannot broadcast into one buffer slot *)
Malformed == -1

(* numpy accepts the assignment buffer[index] = obs *)
WellShaped(obs) == obs \in States

(* Agent.store_transition: the five assignments run in the order of the     *)
(* source; one that raises ends the call and keeps the earlier ones.        *)
store_transition(state, action, reward, new_state, done) ==
    /\ mem_counter < env.max_stores
    /\ LET index == WriteIndex(mem_counter, hp.memory_size)
       IN  IF ~WellShaped(state)
           THEN \* state_buffer[index] = state raises, nothing is written
                /\ UNCHANGED <<buffers, mem_counter, hist>>
                /\ last' = [NoCall EXCEPT !.call = "store_transition",
                                          !.outcome = "ValueError"]
           ELSE IF ~WellShaped(new_state)
           THEN \* next_state_buffer[index] = new_state raises after three writes
                /\ state_buffer' = [state_buffer EXCEPT ![index] = state]
                /\ action_buffer' = [action_buffer EXCEPT ![index] = action]
                /\ reward_buffer' = [reward_buffer EXCEPT ![index] = R(reward)]
                /\ UNCHANGED <<next_state_buffer, terminal_buffer, mem_counter, hist>>
                /\ last' = [NoCall EXCEPT !.call = "store_transition",
                                          !.outcome = "ValueError"]
           ELSE /\ state_buffer' = [state_buffer EXCEPT ![index] = state]
                /\ action_buffer' = [action_buffer EXCEPT ![index] = action]
                /\ reward_buffer' = [reward_buffer EXCEPT ![index] = R(reward)]
                /\ next_state_buffer' = [next_state_buffer EXCEPT ![index] = new_state]
                /\ terminal_buffer' = [terminal_buffer EXCEPT ![index] = done]
                /\ mem_counter' = mem_counter + 1
                /\ hist' = Append(hist, Transition(state, action, reward, new_state, done))
                /\ last' = [NoCall EXCEPT !.call = "store_transition"]
    /\ UNCHANGED <<hp, env, epsilon, learn_step_counter, networks>>

----------------------------------------------------------------------------
(* The function approximators: a Q-network maps a state to one estimate per *)
(* action, a V-network maps a state to one estimate.                        *)

NoNet == "none"

ZeroRow(row) == [a \in DOMAIN row |-> R(0)]

MaxRow(row) == CHOOSE m \in {row[a] : a \in DOMAIN row} :
                   \A a \in DOMAIN row : RLeq(row[a], m)

(* torch.argmax over one row: the first index holding the maximum *)
RECURSIVE ArgmaxScan(_, _, _)
ArgmaxScan(row, a, best) ==
    IF a \notin DOMAIN row THEN best
    ELSE ArgmaxScan(row, a + 1, IF RLess(row[best], row[a]) THEN a ELSE best)

Argmax(row) == ArgmaxScan(row, 1, 0)

(* the sum, over the rows 1 .. i that used parameter p, of p - y_i *)
RECURSIVE ErrorSum(_, _, _, _)
ErrorSum(pred, hits, targets, i) ==
    IF i = 0 THEN R(0)
    ELSE RAdd(IF hits[i] THEN RSub(pred, targets[i]) ELSE R(0),
              ErrorSum(pred, hits, targets, i - 1))

(* one gradient-descent step on the mean squared error of a batch of n    *)
(* rows: p <- p - lr * (2 / n) * sum of (p - y_i) over the rows that used p *)
Step(pred, hits, targets, n) ==
    RSub(pred, RMul(RMul(hp.lr, Rat(2, n)), ErrorSum(pred, hits, targets, n)))

FitQ(net, states_batch, actions_batch, targets) ==
    LET n == Len(states_batch)
    IN  [s \in DOMAIN net |-> [a \in DOMAIN net[s] |->
            Step(net[s][a],
                 [i \in 1 .. n |-> states_batch[i] = s /\ actions_batch[i] = a],
                 targets, n)]]

FitV(net, states_batch, targets) ==
    LET n == Len(states_batch)
    IN  [s \in DOMAIN net |->
            Step(net[s], [i \in 1 .. n |-> states_batch[i] = s], targets, n)]

----------------------------------------------------------------------------
(* The TD target of one sampled row. *)

(* a target that bootstraps from terminal transitions too *)
DQNTargetUnmasked(qt, new_state, reward, terminal) ==
    RAdd(reward, RMul(hp.gamma, MaxRow(qt[new_state])))

(* DQNAgent.learn: rows of terminal transitions are zeroed, then the maximum *)
DQNTarget(qt, new_state, reward, terminal) ==
    LET q_next == IF terminal THEN ZeroRow(qt[new_state]) ELSE qt[new_state]
    IN  RAdd(reward, RMul(hp.gamma, MaxRow(q_next)))

(* a target whose action is chosen by the target network itself *)
DDQNTargetOwnArgmax(q, qt, new_state, reward, terminal) ==
    LET target_q_snext == IF terminal THEN ZeroRow(qt[new_state])
                          ELSE qt[new_state]
    IN  RAdd(reward, RMul(hp.gamma, target_q_snext[Argmax(target_q_snext)]))

(* DDQNAgent.learn: the action is chosen by the online network, valued by *)
(* the target network                                                     *)
DDQNTarget(q, qt, new_state, reward, terminal) ==
    LET q_snext == IF terminal THEN ZeroRow(q[new_state]) ELSE q[new_state]
        q_actions == Argmax(q_snext)
        target_q_snext == IF terminal THEN ZeroRow(qt[new_state])
                          ELSE qt[new_state]
        q_action_target == target_q_snext[q_actions]
    IN  RAdd(reward, RMul(hp.gamma, q_action_target))

(* DQVAgent.learn: one target for both networks, from the target V-network *)
DQVTarget(tv, new_state, reward, terminal) ==
    LET v_s_next_target == IF terminal THEN R(0) ELSE tv[new_state]
    IN  RAdd(reward, RMul(hp.gamma, v_s_next_target))

(* DQVMaxAgent.learn: the V-network's target, from the target Q-network *)
DQVMaxVTarget(qt, new_state, reward, terminal) ==
    LET max_q_next_target == IF terminal THEN R(0) ELSE MaxRow(qt[new_state])
    IN  RAdd(reward, RMul(hp.gamma, max_q_next_target))

(* DQVMaxAgent.learn: the Q-network's target, from the V-network *)
DQVMaxQTarget(v, new_state, reward, terminal) ==
    LET v_s_next == IF terminal THEN R(0) ELSE v[new_state]
    IN  RAdd(reward, RMul(hp.gamma, v_s_next))

----------------------------------------------------------------------------
(* Target synchronisation and epsilon decay. *)

SyncDue(step, frequency) == step % frequency = 0

(* a sync that leaves the target as it was *)
HardUpdateSkipped(online, target) == target

(* load_state_dict: a full overwrite *)
HardUpdate(online, target) == online

(* an interpolation with the two weights exchanged *)
SoftUpdateSwapped(online, target, t_weight) ==
    [s \in DOMAIN target |-> [a \in DOMAIN target[s] |->
        RAdd(RMul(RSub(R(1), t_weight), online[s][a]),
             RMul(t_weight, target[s][a]))]]

(* DDQNAgent.learn, soft update: every parameter is interpolated *)
SoftUpdate(online, target, t_weight) ==
    [s \in DOMAIN target |-> [a \in DOMAIN target[s] |->
        RAdd(RMul(t_weight, online[s][a]),
             RMul(RSub(R(1), t_weight), target[s][a]))]]

DecayDQN(eps, decay, eps_min) ==
    IF RLess(eps_min, eps) THEN RMul(eps, decay) ELSE eps_min

DecayDDQN(eps, decay, eps_min) == RMax(RMul(eps, decay), eps_min)

DecayDQV(eps, decay, eps_min) == RMax(eps_min, RMul(eps, decay))

DecayDQVMax(eps, decay, eps_min) == RMax(eps_min, RMul(eps, decay))

----------------------------------------------------------------------------
(* learn(): the burn-in guard, the sampling of a batch, and the four rules. *)

(* a guard that opens one transition early *)
BurnInGuardEarly(counter, burn_in) == counter + 1 < burn_in

BurnInGuard(counter, burn_in) == counter < burn_in

MaxMem(counter, size) == Min(counter, size)

(* np.random.choice(max_mem, batch_size, replace=False): every sequence of *)
(* batch_size pairwise distinct indices below max_mem; none exists when    *)
(* batch_size > max_mem, and numpy raises ValueError                       *)
Choice(max_mem, size) ==
    {b \in [1 .. size -> 0 .. (max_mem - 1)] :
        \A i, j \in 1 .. size : i # j => b[i] # b[j]}

Batch(buffer, batch_indices) ==
    [i \in 1 .. Len(batch_indices) |-> buffer[batch_indices[i]]]

Learned(outcome, batch_indices, v_target, q_target) ==
    [call |-> "learn", outcome |-> outcome, ret |-> -1,
     batch_indices |-> batch_indices, v_target |-> v_target,
     q_target |-> q_target]

DQN_learn(batch_indices) ==
    LET states_batch == Batch(state_buffer, batch_indices)
        actions_batch == Batch(action_buffer, batch_indices)
        rewards_batch == Batch(reward_buffer, batch_indices)
        new_states_batch == Batch(next_state_buffer, batch_indices)
        terminal_batch == Batch(terminal_buffer, batch_indices)
        q_target == [i \in 1 .. Len(batch_indices) |->
                        DQNTarget(q_target_network, new_states_batch[i],
                                  rewards_batch[i], terminal_batch[i])]
        stepped == FitQ(q_network, states_batch, actions_batch, q_target)
        step == learn_step_counter + 1
    IN  /\ q_network' = stepped
        /\ learn_step_counter' = step
        /\ q_target_network' =
               IF SyncDue(step, hp.target_update_frequency)
               THEN HardUpdate(stepped, q_target_network)
               ELSE q_target_network
        /\ epsilon' = DecayDQN(epsilon, hp.epsilon_decay, hp.epsilon_min)
        /\ last' = Learned("completed", batch_indices, <<>>, q_target)
        /\ UNCHANGED <<v_network, target_v_network>>

DDQN_learn(batch_indices) ==
    LET states_batch == Batch(state_buffer, batch_indices)
        actions_batch == Batch(action_buffer, batch_indices)
        rewards_batch == Batch(reward_buffer, batch_indices)
        new_states_batch == Batch(next_state_buffer, batch_indices)
        terminal_batch == Batch(terminal_buffer, batch_indices)
        target == [i \in 1 .. Len(batch_indices) |->
                      DDQNTarget(q_network, q_target_network, new_states_batch[i],
                                 rewards_batch[i], terminal_batch[i])]
        stepped == FitQ(q_network, states_batch, actions_batch, target)
        step == learn_step_counter + 1
    IN  /\ q_network' = stepped
        /\ learn_step_counter' = step
        /\ q_target_network' =
               IF SyncDue(step, hp.target_update_frequency)
               THEN IF hp.soft_update
                    THEN SoftUpdate(stepped, q_target_network, hp.t_weight)
                    ELSE HardUpdate(stepped, q_target_network)
               ELSE q_target_network
        /\ epsilon' = DecayDDQN(epsilon, hp.epsilon_decay, hp.epsilon_min)
        /\ last' = Learned("completed", batch_indices, <<>>, target)
        /\ UNCHANGED <<v_network, target_v_network>>

(* .squeeze() of a one-row batch of V estimates leaves a tensor without an *)
(* axis; indexing it with the one-element terminal mask either fails with  *)
(* IndexError or acts on the single value                                  *)
SqueezeFails(batch_indices) ==
    IF Len(batch_indices) = 1 THEN BOOLEAN ELSE {FALSE}

(* a Q-loss against a target derived again after the V-network's step *)
QLossTargetRefreshed(frozen, refreshed) == refreshed

(* DQVAgent.learn: the Q-loss is taken against the tensor target_dqv that *)
(* the V-loss used, not against a second evaluation                       *)
QLossTarget(frozen, refreshed) == frozen

DQV_learn(batch_indices, fails) ==
    LET states_batch == Batch(state_buffer, batch_indices)
        actions_batch == Batch(action_buffer, batch_indices)
        rewards_batch == Batch(reward_buffer, batch_indices)
        new_states_batch == Batch(next_state_buffer, batch_indices)
        terminal_batch == Batch(terminal_buffer, batch_indices)
        target_dqv == [i \in 1 .. Len(batch_indices) |->
                          DQVTarget(target_v_network, new_states_batch[i],
                                    rewards_batch[i], terminal_batch[i])]
        v_stepped == FitV(v_network, states_batch, target_dqv)
        refreshed == [i \in 1 .. Len(batch_indices) |->
                         DQVTarget(v_stepped, new_states_batch[i],
                                   rewards_batch[i], terminal_batch[i])]
        q_loss_target == QLossTarget(target_dqv, refreshed)
        q_stepped == FitQ(q_network, states_batch, actions_batch, q_loss_target)
        step == learn_step_counter + 1
    IN  IF fails
        THEN /\ last' = Learned("IndexError", batch_indices, <<>>, <<>>)
             /\ UNCHANGED <<epsilon, learn_step_counter, networks>>
        ELSE /\ v_network' = v_stepped
             /\ q_network' = q_stepped
             /\ learn_step_counter' = step
             /\ target_v_network' =
                    IF SyncDue(step, hp.target_update_frequency)
                    THEN HardUpdate(v_stepped, target_v_network)
                    ELSE target_v_network
             /\ epsilon' = DecayDQV(epsilon, hp.epsilon_decay, hp.epsilon_min)
             /\ last' = Learned("completed", batch_indices, target_dqv,
                                q_loss_target)
             /\ UNCHANGED q_target_network

DQVMax_learn(batch_indices, fails) ==
    LET states_batch == Batch(state_buffer, batch_indices)
        actions_batch == Batch(action_buffer, batch_indices)
        rewards_batch == Batch(reward_buffer, batch_indices)
        new_states_batch == Batch(next_state_buffer, batch_indices)
        terminal_batch == Batch(terminal_buffer, batch_indices)
        v_target == [i \in 1 .. Len(batch_indices) |->
                        DQVMaxVTarget(q_target_network, new_states_batch[i],
                                      rewards_batch[i], terminal_batch[i])]
        v_stepped == FitV(v_network, states_batch, v_target)
        \* the V-network has taken its step when the Q-target reads it
        q_target == [i \in 1 .. Len(batch_indices) |->
                        DQVMaxQTarget(v_stepped, new_states_batch[i],
                                      rewards_batch[i], terminal_batch[i])]
        q_stepped == FitQ(q_network, states_batch, actions_batch, q_target)
        step == learn_step_counter + 1
    IN  IF fails
        THEN /\ v_network' = v_stepped
             /\ last' = Learned("IndexError", batch_indices, v_target, <<>>)
             /\ UNCHANGED <<epsilon, learn_step_counter, q_network,
                            q_target_network, target_v_network>>
        ELSE /\ v_network' = v_stepped
             /\ q_network' = q_stepped
             /\ learn_step_counter' = step
             /\ q_target_network' =
                    IF SyncDue(step, hp.target_update_frequency)
                    THEN HardUpdate(q_stepped, q_target_network)
                    ELSE q_target_network
             /\ epsilon' = DecayDQVMax(epsilon, hp.epsilon_decay, hp.epsilon_min)
             /\ last' = Learned("completed", batch_indices, v_target, q_target)
             /\ UNCHANGED target_v_network

learn ==
    /\ learn_step_counter < env.max_learns
    /\ UNCHANGED <<hp, env, buffers, mem_counter, hist>>
    /\ IF BurnInGuard(mem_counter, hp.burn_in_period)
       THEN /\ last' = Learned("guarded", <<>>, <<>>, <<>>)
            /\ UNCHANGED <<epsilon, learn_step_counter, networks>>
       ELSE LET max_mem == MaxMem(mem_counter, hp.memory_size)
            IN  IF Choice(max_mem, hp.batch_size) = {}
                THEN /\ last' = Learned("ValueError", <<>>, <<>>, <<>>)
                     /\ UNCHANGED <<epsilon, learn_step_counter, networks>>
                ELSE \E batch_indices \in Choice(max_mem, hp.batch_size) :
                       CASE hp.variant = "DQN" -> DQN_learn(batch_indices)
                         [] hp.variant = "DDQN" -> DDQN_learn(batch_indices)
                         [] hp.variant = "DQV" ->
                              \E fails \in SqueezeFails(batch_indices) :
                                  DQV_learn(batch_indices, fails)
                         [] hp.variant = "DQVMax" ->
                              \E fails \in SqueezeFails(batch_indices) :
                                  DQVMax_learn(batch_indices, fails)

(* choose_action: explore when np.random.rand() <= epsilon (rand() is in    *)
(* [0, 1)), else the first best action of the online Q-network              *)
choose_action(observation, explore, random_action) ==
    /\ IF explore THEN RLeq(R(0), epsilon) ELSE RLess(epsilon, R(1))
    /\ last' = [NoCall EXCEPT !.call = "choose_action",
                              !.ret = IF explore THEN random_action
                                      ELSE Argmax(q_network[observation])]
    /\ UNCHANGED <<hp, env, buffers, mem_counter, epsilon, learn_step_counter,
                   networks, hist>>

Next ==
    \/ \E t \in env.transitions :
           store_transition(t.state, t.action, t.reward, t.new_state, t.done)
    \/ \E observation \in States, explore \in BOOLEAN, random_action \in Actions :
           choose_action(observation, explore, random_action)
    \/ learn

----------------------------------------------------------------------------
(* Construction. *)

(* Agent.__init__: zeroed buffers of memory_size slots *)
InitBuffers ==
    /\ state_buffer = [i \in Slots |-> 0]
    /\ next_state_buffer = [i \in Slots |-> 0]
    /\ action_buffer = [i \in Slots |-> 0]
    /\ reward_buffer = [i \in Slots |-> R(0)]
    /\ terminal_buffer = [i \in Slots |-> FALSE]
    /\ mem_counter = 0

(* freshly constructed networks: the same estimates in every state *)
QInits(vals) == {[s \in States |-> row] : row \in [Actions -> vals]}
VInits(vals) == {[s \in States |-> v] : v \in vals}

(* DQNAgent.__init__: the target network loads the online network's state *)
InitDQN(vals) ==
    /\ q_network \in QInits(vals)
    /\ q_target_network = q_network
    /\ v_network = NoNet
    /\ target_v_network = NoNet

(* DDQNAgent.__init__: two networks are constructed, no state is loaded *)
InitDDQN(vals) ==
    /\ q_network \in QInits(vals)
    /\ q_target_network \in QInits(vals)
    /\ v_network = NoNet
    /\ target_v_network = NoNet

(* DQVAgent.__init__: the target V-network loads the V-network's state *)
InitDQV(vals) ==
    /\ q_network \in QInits(vals)
    /\ q_target_network = NoNet
    /\ v_network \in VInits(vals)
    /\ target_v_network = v_network

(* DQVMaxAgent.__init__: the target Q-network loads the Q-network's state *)
InitDQVMax(vals) ==
    /\ q_network \in QInits(vals)
    /\ q_target_network = q_network
    /\ v_network \in VInits(vals)
    /\ target_v_network = NoNet

InitWith(hps, envs, vals) ==
    /\ hp \in hps
    /\ env \in envs
    /\ InitBuffers
    /\ epsilon = hp.epsilon_start
    /\ learn_step_counter = 0
    /\ CASE hp.variant = "DQN" -> InitDQN(vals)
         [] hp.variant = "DDQN" -> InitDDQN(vals)
         [] hp.variant = "DQV" -> InitDQV(vals)
         [] hp.variant = "DQVMax" -> InitDQVMax(vals)
    /\ hist = <<>>
    /\ last = NoCall

(* the keyword arguments of the constructors *)
HP(variant, size, batch, burn_in, frequency, soft, eps) ==
    [variant |-> variant, memory_size |-> size, n_actions |-> 2,
     lr |-> Rat(1, 2), gamma |-> Rat(1, 2),
     epsilon_start |-> eps[1], epsilon_min |-> eps[2], epsilon_decay |-> eps[3],
     batch_size |-> batch,
     target_update_frequency |-> frequency,
     burn_in_period |-> burn_in,
     soft_update |-> soft, t_weight |-> Rat(1, 4)]

(* soft_update is a parameter of DDQNAgent alone *)
SoftModes(variant) == IF variant = "DDQN" THEN BOOLEAN ELSE {FALSE}

(* every combination of the given arguments *)
HPs(variants, sizes, batches, burn_ins, frequencies, epss) ==
    {h \in {HP(v, m, b, p, f, s, e) :
               v \in variants, m \in sizes, b \in batches, p \in burn_ins,
               f \in frequencies, s \in BOOLEAN, e \in epss} :
        h.soft_update \in SoftModes(h.variant)}

Env(n_states, transitions, max_stores, max_learns) ==
    [n_states |-> n_states, transitions |-> transitions,
     max_stores |-> max_stores, max_learns |-> max_learns]

AllTransitions(states, actions, rewards) ==
    {Transition(s, a, r, s2, d) :
        s \in states, a \in actions, r \in rewards, s2 \in states, d \in BOOLEAN}

----------------------------------------------------------------------------
(* Specifications: the same agent under different ranges of its arguments. *)

NoDecay == <<R(1), R(1), R(1)>>

(* The replay memory: capacities 1 .. MaxCapacity, up to StoreCalls stores. *)
MaxCapacity == 5
StoreCalls == 7

StoreTransitions ==
    {Transition(1, 0, 1, 0, TRUE), Transition(0, 1, 2, 1, FALSE)}

InitStore ==
    InitWith(HPs({"DQN"}, 1 .. MaxCapacity, {1}, {2}, {1}, {NoDecay}),
             {Env(2, StoreTransitions, StoreCalls, 1)},
             {R(0)})

SpecStore == InitStore /\ [][Next]_vars

(* Epsilon decay: every variant, up to EpsLearns completed learn() calls. *)
EpsLearns == 5

EpsConfigs ==
    {<<R(1), Rat(1, 10), Rat(1, 2)>>,    \* the scenario 1.0, 0.1, 0.5
     <<R(1), Rat(1, 4), Rat(1, 2)>>,     \* the floor is hit exactly
     <<Rat(1, 2), Rat(1, 5), Rat(3, 4)>>}

OneTransition == {Transition(1, 1, 1, 0, FALSE)}

InitEps ==
    InitWith(HPs(Variants, {1}, {1}, {1}, {2}, EpsConfigs),
             {Env(2, OneTransition, 1, EpsLearns)},
             {R(0)})

SpecEps == InitEps /\ [][Next]_vars

(* The burn-in guard and the sampling: memory_size and batch_size in      *)
(* 1 .. GuardSize, burn_in_period in 0 .. GuardSize + 1 (so that it can    *)
(* exceed the capacity), one store more than the largest capacity.        *)
GuardSize == 2
GuardLearns == 2

GuardTransitions == {Transition(0, 1, 2, 1, FALSE)}

InitGuard ==
    InitWith(HPs(Variants, 1 .. GuardSize, 1 .. GuardSize, 0 .. (GuardSize + 1),
                 {1}, {NoDecay}),
             {Env(2, GuardTransitions, GuardSize + 1, GuardLearns)},
             {R(0)})

SpecGuard == InitGuard /\ [][Next]_vars

(* The learning rules: capacity 2, batches of 1 and 2 rows, a target sync *)
(* every 1 or 2 steps, networks constructed with estimates -1 and 1.      *)
NetStores == 2
NetLearns == 3

NetTransitions ==
    {Transition(0, 1, 2, 1, FALSE), Transition(1, 0, 1, 0, TRUE)}

InitNet ==
    InitWith(HPs(Variants, {2}, {1, 2}, {1}, {1, 2}, {NoDecay}),
             {Env(2, NetTransitions, NetStores, NetLearns)},
             {R(-1), R(1)})

SpecNet == InitNet /\ [][Next]_vars

(* Observations of the wrong shape: capacities 1 .. ShapeCapacity, a       *)
(* two well-shaped transitions, one whose new_state is malformed and one   *)
(* whose state is malformed.                                               *)
ShapeCapacity == 2
ShapeStores == 3

ShapeTransitions ==
    {Transition(0, 1, 2, 1, TRUE),
     Transition(1, 0, 1, 0, FALSE),
     Transition(1, 1, 1, Malformed, TRUE),
     Transition(Malformed, 1, 1, 1, TRUE)}

InitShape ==
    InitWith(HPs({"DQN"}, 1 .. ShapeCapacity, {1}, {1}, {1}, {NoDecay}),
             {Env(2, ShapeTransitions, ShapeStores, 1)},
             {R(0)})

SpecShape == InitShape /\ [][Next]_vars

----------------------------------------------------------------------------
(* Claims. *)

(* the slot of the n-th stored transition (counting from 0) *)
SlotOf(n) == n % hp.memory_size

(* slot i holds transition t in all five arrays *)
Holds(i, t) ==
    /\ state_buffer[i] = t.state
    /\ action_buffer[i] = t.action
    /\ reward_buffer[i] = R(t.reward)
    /\ next_state_buffer[i] = t.new_state
    /\ terminal_buffer[i] = t.done

(* C1: after any number of store_transition calls, each of the last        *)
(* memory_size transitions sits at slot n mod memory_size (n its number,    *)
(* from 0), with all five fields of that slot belonging to it; so after     *)
(* more than memory_size calls the store holds exactly the last memory_size *)
(* transitions.                                                             *)
C1_RingBuffer ==
    /\ Len(hist) = mem_counter
    /\ \A n \in 0 .. (mem_counter - 1) :
           n >= mem_counter - hp.memory_size => Holds(SlotOf(n), hist[n + 1])
    /\ mem_counter >= hp.memory_size =>
           \A i \in Slots : \E n \in (mem_counter - hp.memory_size) .. (mem_counter - 1) :
               Holds(i, hist[n + 1])

(* the scenario of capacity 5 and 7 stores: slots 0 and 1 were overwritten *)
C1_Witness ==
    /\ hp.memory_size = 5
    /\ mem_counter = 7
    /\ Holds(0, hist[6])
    /\ Holds(1, hist[7])
    /\ Holds(2, hist[3])
    /\ hist[1] # hist[6]

(* epsilon after n floor-clamped decays: eps <- max(eps_min, eps * d) *)
RECURSIVE Clamped(_, _, _, _)
Clamped(eps, decay, eps_min, n) ==
    IF n = 0 THEN eps
    ELSE LET e == Clamped(eps, decay, eps_min, n - 1)
             m == RMul(e, decay)
         IN  IF RLess(m, eps_min) THEN eps_min ELSE m

(* C4: in every variant epsilon never increases and is never below        *)
(* epsilon_min (the configurations have epsilon_start >= epsilon_min and   *)
(* 0 < epsilon_decay < 1).                                                 *)
C4_EpsilonMonotoneFloored ==
    /\ [](RLeq(hp.epsilon_min, epsilon))
    /\ [][RLeq(epsilon', epsilon)]_vars

(* C4, the three variants that clamp with max() *)
C4_MaxClampVariants ==
    hp.variant # "DQN" => RLeq(hp.epsilon_min, epsilon)

(* C5: after n completed learn() calls every variant holds the epsilon that *)
(* n applications of eps <- max(eps_min, eps * d) give (1.0, 0.5, 0.25,     *)
(* 0.125, 0.1 for the scenario), and no other call changes epsilon.         *)
C5_SameEpsilonEverywhere ==
    epsilon = Clamped(hp.epsilon_start, hp.epsilon_decay, hp.epsilon_min,
                      learn_step_counter)

(* C5, the three variants that clamp with max() *)
C5_MaxClampVariants ==
    hp.variant # "DQN" => C5_SameEpsilonEverywhere

(* what a call of learn() that does nothing leaves alone *)
LearnIsNoOp ==
    UNCHANGED <<epsilon, learn_step_counter, networks, buffers, mem_counter>>

(* C2 as stated: learn() is a no-op whenever min(C, M) < burn_in_period *)
C2_NoOpBelowValidCount ==
    [][(last'.call = "learn" /\
        Min(mem_counter, hp.memory_size) < hp.burn_in_period) => LearnIsNoOp]_vars

(* C2: learn() returns at once, leaving epsilon, the learning step counter, *)
(* every network and the transition store unchanged, whenever the number    *)
(* of store_transition calls so far is below burn_in_period.                *)
C2_NoOpBelowBurnIn ==
    [][(last'.call = "learn" /\ mem_counter < hp.burn_in_period) =>
           (last'.outcome = "guarded" /\ LearnIsNoOp)]_vars

(* a guarded learn() after some stores, with burn_in_period above capacity *)
C2_Witness ==
    /\ last.call = "learn"
    /\ last.outcome = "guarded"
    /\ mem_counter >= 1
    /\ hp.burn_in_period > hp.memory_size

(* C3: every learn() past the burn-in guard samples batch_size pairwise   *)
(* distinct slots below min(C, M), and the sampling never fails for lack  *)
(* of transitions.                                                        *)
C3_SamplingNeverFails ==
    (last.call = "learn" /\ last.outcome # "guarded") =>
        /\ last.outcome # "ValueError"
        /\ Len(last.batch_indices) = hp.batch_size
        /\ \A i, j \in 1 .. Len(last.batch_indices) :
               i # j => last.batch_indices[i] # last.batch_indices[j]
        /\ \A i \in 1 .. Len(last.batch_indices) :
               /\ 0 <= last.batch_indices[i]
               /\ last.batch_indices[i] < Min(mem_counter, hp.memory_size)

(* C3, the calls whose sampling succeeds *)
C3_SampledDistinctValid ==
    (last.call = "learn" /\ last.outcome \notin {"guarded", "ValueError"}) =>
        /\ Len(last.batch_indices) = hp.batch_size
        /\ \A i, j \in 1 .. Len(last.batch_indices) :
               i # j => last.batch_indices[i] # last.batch_indices[j]
        /\ \A i \in 1 .. Len(last.batch_indices) :
               /\ 0 <= last.batch_indices[i]
               /\ last.batch_indices[i] < Min(mem_counter, hp.memory_size)

----------------------------------------------------------------------------
(* The learning rules. *)

Completed == last.call = "learn" /\ last.outcome = "completed"

(* the target network of the variant and the network it copies *)
TargetNet == IF hp.variant = "DQV" THEN target_v_network ELSE q_target_network
OnlineNet == IF hp.variant = "DQV" THEN v_network ELSE q_network

(* the sampled rows of the last learn() *)
Rows == 1 .. Len(last.batch_indices)
RowReward(i) == reward_buffer[last.batch_indices[i]]
RowNext(i) == next_state_buffer[last.batch_indices[i]]
RowTerminal(i) == terminal_buffer[last.batch_indices[i]]

(* y = r + gamma * x *)
Bootstrapped(r, x) == RAdd(r, RMul(hp.gamma, x))

(* m is the largest estimate of the row *)
IsMax(row, m) ==
    /\ \E a \in DOMAIN row : row[a] = m
    /\ \A a \in DOMAIN row : RLeq(row[a], m)

(* a is the first action holding the largest estimate of the row *)
IsFirstArgmax(row, a) ==
    /\ IsMax(row, row[a])
    /\ \A b \in DOMAIN row : b < a => row[b] # row[a]

(* C6: in hard-update mode, right after a completed learn() whose step      *)
(* counter becomes a multiple of target_update_frequency, the target        *)
(* network equals the online network as it is after that step; the step     *)
(* counter advances by one on a completed learn() and on nothing else.       *)
C6_HardSyncOnSchedule ==
    [][/\ Completed' => learn_step_counter' = learn_step_counter + 1
       /\ ~Completed' => learn_step_counter' = learn_step_counter
       /\ (/\ Completed'
           /\ ~hp.soft_update
           /\ learn_step_counter' % hp.target_update_frequency = 0)
              => TargetNet' = OnlineNet']_vars

(* the second completed step of a DQV-Max agent that syncs every 2 steps *)
C6_Witness ==
    /\ Completed
    /\ hp.variant = "DQVMax"
    /\ hp.target_update_frequency = 2
    /\ learn_step_counter = 2
    /\ q_target_network = q_network
    /\ q_target_network \notin QInits({R(-1), R(1)})

(* C7: a target network changes only in a completed learn() whose step      *)
(* counter becomes a multiple of target_update_frequency; in Double DQN      *)
(* soft mode the change is, for every parameter,                             *)
(* t_weight * online + (1 - t_weight) * target, online taken after the step. *)
C7_TargetChangesOnlyAtSync ==
    [][/\ <<q_target_network, target_v_network>>' #
              <<q_target_network, target_v_network>>
          => (/\ Completed'
              /\ learn_step_counter' = learn_step_counter + 1
              /\ learn_step_counter' % hp.target_update_frequency = 0)
       /\ (/\ Completed'
           /\ hp.variant = "DDQN"
           /\ hp.soft_update
           /\ learn_step_counter' % hp.target_update_frequency = 0)
          => \A s \in States, a \in Actions :
                 q_target_network'[s][a] =
                     RAdd(RMul(hp.t_weight, q_network'[s][a]),
                          RMul(RSub(R(1), hp.t_weight), q_target_network[s][a]))]_vars

(* a soft update that moved the target strictly between its old value and *)
(* the online network                                                     *)
C7_Witness ==
    /\ Completed
    /\ hp.variant = "DDQN"
    /\ hp.soft_update
    /\ learn_step_counter % hp.target_update_frequency = 0
    /\ q_target_network # q_network
    /\ q_target_network \notin QInits({R(-1), R(1)})

(* C8 as stated: in DQV and DQV-Max both losses use the same target, derived *)
(* from the parameters as they were before either gradient step.             *)
C8_OneFrozenTarget ==
    [][(Completed' /\ hp.variant \in {"DQV", "DQVMax"}) =>
          /\ last'.v_target = last'.q_target
          /\ \A i \in Rows' :
                 last'.q_target[i] =
                     IF hp.variant = "DQV"
                     THEN Bootstrapped(RowReward(i)',
                              IF RowTerminal(i)' THEN R(0)
                              ELSE target_v_network[RowNext(i)'])
                     ELSE Bootstrapped(RowReward(i)',
                              IF RowTerminal(i)' THEN R(0)
                              ELSE v_network[RowNext(i)'])]_vars

(* C8: in DQV both losses of a learn() use, for each row, one target         *)
(* r + gamma * (1 - terminal) * V_target(s') derived from the target         *)
(* V-network as it was before either step. In DQV-Max the V-loss uses        *)
(* r + gamma * (1 - terminal) * max_a Q_target(s', a), from the target       *)
(* Q-network as it was before either step, and the Q-loss uses               *)
(* r + gamma * (1 - terminal) * V(s') with V as it is after its own step of  *)
(* the same call.                                                            *)
C8_FrozenTargets ==
    [][/\ (Completed' /\ hp.variant = "DQV") =>
              /\ last'.v_target = last'.q_target
              /\ \A i \in Rows' :
                     last'.q_target[i] =
                         Bootstrapped(RowReward(i)',
                             IF RowTerminal(i)' THEN R(0)
                             ELSE target_v_network[RowNext(i)'])
       /\ (Completed' /\ hp.variant = "DQVMax") =>
              \A i \in Rows' :
                  /\ \E m \in {q_target_network[RowNext(i)'][a] : a \in Actions} :
                         /\ IsMax(q_target_network[RowNext(i)'], m)
                         /\ last'.v_target[i] =
                                Bootstrapped(RowReward(i)',
                                    IF RowTerminal(i)' THEN R(0) ELSE m)
                  /\ last'.q_target[i] =
                         Bootstrapped(RowReward(i)',
                             IF RowTerminal(i)' THEN R(0)
                             ELSE v_network'[RowNext(i)'])]_vars

(* a DQV-Max step whose Q-loss target of a non-terminal row is built on the *)
(* V-network's estimate as the step of the same call left it                *)
C8_Witness ==
    /\ Completed
    /\ hp.variant = "DQVMax"
    /\ learn_step_counter = 1
    /\ \E i \in Rows :
           /\ ~RowTerminal(i)
           /\ v_network[RowNext(i)] \notin {R(-1), R(1)}
           /\ last.q_target[i] = Bootstrapped(RowReward(i), v_network[RowNext(i)])
           /\ last.q_target[i] # last.v_target[i]

(* C9: in Double DQN the target of a non-terminal row is                    *)
(* r + gamma * Q_target(s', b), b the first best action of the online        *)
(* network at s', both networks as they were when learn() was called.        *)
C9_OnlineSelectsTargetEvaluates ==
    [][(Completed' /\ hp.variant = "DDQN") =>
          \A i \in Rows' : ~RowTerminal(i)' =>
              \E a \in Actions :
                  /\ IsFirstArgmax(q_network[RowNext(i)'], a)
                  /\ last'.q_target[i] =
                         Bootstrapped(RowReward(i)',
                                      q_target_network[RowNext(i)'][a])]_vars

(* a non-terminal row whose target is the target network's estimate of an *)
(* action that is not the target network's own best                       *)
C9_Witness ==
    /\ Completed
    /\ hp.variant = "DDQN"
    /\ hp.target_update_frequency = 2
    /\ learn_step_counter = 1
    /\ \E i \in Rows, a \in Actions :
           /\ ~RowTerminal(i)
           /\ ~IsMax(q_target_network[RowNext(i)], q_target_network[RowNext(i)][a])
           /\ last.q_target[i] =
                  Bootstrapped(RowReward(i), q_target_network[RowNext(i)][a])

(* C10: every target of a terminal row is its reward, in all four variants; *)
(* in DQN the target of a non-terminal row is                                *)
(* r + gamma * max_a Q_target(s', a).                                        *)
C10_TerminalTargetIsReward ==
    [][Completed' =>
          \A i \in Rows' :
              /\ RowTerminal(i)' =>
                     /\ last'.q_target[i] = RowReward(i)'
                     /\ hp.variant \in {"DQV", "DQVMax"} =>
                            last'.v_target[i] = RowReward(i)'
              /\ (hp.variant = "DQN" /\ ~RowTerminal(i)') =>
                     \E m \in {q_target_network[RowNext(i)'][a] : a \in Actions} :
                         /\ IsMax(q_target_network[RowNext(i)'], m)
                         /\ last'.q_target[i] = Bootstrapped(RowReward(i)', m)]_vars

(* a terminal row of a DQN batch whose target network is negative for  *)
(* every action at the next state, and its target is the reward        *)
C10_Witness ==
    /\ Completed
    /\ hp.variant = "DQN"
    /\ hp.target_update_frequency = 2
    /\ learn_step_counter = 1
    /\ \E i \in Rows :
           /\ RowTerminal(i)
           /\ \A a \in Actions : RLess(q_target_network[RowNext(i)][a], R(0))
           /\ last.q_target[i] = RowReward(i)

(* slot i is as Agent.__init__ left it *)
Unwritten(i) ==
    /\ state_buffer[i] = 0
    /\ action_buffer[i] = 0
    /\ reward_buffer[i] = R(0)
    /\ next_state_buffer[i] = 0
    /\ terminal_buffer[i] = FALSE

(* every slot holds, in all five arrays, the last transition stored into it, *)
(* or nothing when no transition was stored into it yet                     *)
SlotsAligned ==
    \A i \in Slots :
        IF i >= mem_counter THEN Unwritten(i)
        ELSE \E n \in 0 .. (mem_counter - 1) :
                 /\ SlotOf(n) = i
                 /\ n >= mem_counter - hp.memory_size
                 /\ Holds(i, hist[n + 1])

StoreFailed == last.call = "store_transition" /\ last.outcome = "ValueError"

(* C11: the write of store_transition is atomic across the five arrays: in  *)
(* every state between calls each slot of the state, action, reward,        *)
(* next_state and terminal arrays describes one and the same transition,    *)
(* and a store_transition call that fails on a shape mismatch (of state or  *)
(* of new_state) leaves the five arrays and mem_counter as they were.       *)
C11_AtomicWrite ==
    [][/\ SlotsAligned'
       /\ StoreFailed' => UNCHANGED <<buffers, mem_counter>>]_vars

(* C11, the part the code keeps: every call that succeeds leaves the slots *)
(* aligned, and a call that fails leaves the next_state array, the         *)
(* terminal array and mem_counter as they were.                            *)
C11_FailedCallKeepsCounter ==
    [][/\ (SlotsAligned /\ ~StoreFailed') => SlotsAligned'
       /\ StoreFailed' =>
              UNCHANGED <<next_state_buffer, terminal_buffer, mem_counter>>]_vars

(* a slot torn by a failed call: the state, action and reward of the failed *)
(* transition beside the next_state and the terminal flag of an older one   *)
C11_TornSlot ==
    /\ StoreFailed
    /\ mem_counter = 1
    /\ hp.memory_size = 1
    /\ state_buffer[0] = 1
    /\ next_state_buffer[0] = 1
    /\ hist[1].state = 0

(* no target sync has run yet: the first one runs in the learning step      *)
(* whose number is target_update_frequency                                  *)
BeforeFirstSync == learn_step_counter < hp.target_update_frequency

(* C12: immediately after construction, and in every state reached before   *)
(* the first target sync, the target network of each variant (DQN target-Q, *)
(* Double DQN target-Q, DQV target-V, DQV-Max target-Q) has exactly the     *)
(* parameters its online network had at construction: it equals the online  *)
(* network in the constructed agent and does not change before the sync.    *)
C12_TargetIsConstructedOnline ==
    /\ TargetNet = OnlineNet
    /\ [][BeforeFirstSync' => TargetNet' = TargetNet]_vars

(* C12 without the Double DQN constructor: the targets of DQN, DQV and      *)
(* DQV-Max start as copies of their online networks, and no target, that of *)
(* Double DQN included, changes before the first sync.                      *)
C12_LoadedTargets ==
    /\ hp.variant # "DDQN" => TargetNet = OnlineNet
    /\ [][BeforeFirstSync' => TargetNet' = TargetNet]_vars

(* a learning step before the first sync: the online network has moved, the *)
(* target has not                                                           *)
C12_OnlineMovedTargetKept ==
    /\ Completed
    /\ BeforeFirstSync
    /\ learn_step_counter = 1
    /\ TargetNet # OnlineNet
    /\ hp.variant # "DDQN"

====
